---- MODULE Spec2Model ----
(***************************************************************************)
(* go-ffmpeg: one run of the video-processor command.                      *)
(*                                                                         *)
(*   run (main.go)            setup, ProcessVideo, InitAWSClient, upload   *)
(*   ProcessVideo (ffmpeg)    probe, bounded fan-out of one encoder per    *)
(*                            rendition, join, error drain, manifest       *)
(*   GenerateMasterPlaylist   the master manifest text                     *)
(*   UploadToS3               filepath.Walk over the output directory      *)
(*   utils                    ParseFrameRate, ParseBitrate                 *)
(*                                                                         *)
(* Text is a sequence of tokens.  The texts handed to ParseFrameRate and   *)
(* ParseBitrate are sequences of single characters; paths and file names   *)
(* are sequences of path separators and name fragments.                    *)
(***************************************************************************)
EXTENDS Integers, Sequences, FiniteSets, TLC

VARIABLES
    numCPUs,      \* runtime.NumCPU(), the capacity of sem
    platformSep,  \* os.PathSeparator of the build
    Config,       \* vp.Config
    OutputDir,    \* vp.OutputDir (the -o flag)
    S3Bucket,     \* vp.S3Bucket (the -b flag)
    pc,           \* position of the main goroutine in run / ProcessVideo
    loopIdx,      \* i of the range loop over Config.Resolutions
    frameRate,    \* frameRate of ProcessVideo
    gopSize,      \* gopSize of ProcessVideo
    sem,          \* number of tokens buffered in sem
    wg,           \* counter of the WaitGroup
    errChan,      \* buffered content of errChan, oldest first
    errClosed,    \* errChan has been closed
    worker,       \* per loop iteration: the goroutine's position, arguments, exit
    probes,       \* number of ffprobe executions
    starts,       \* per loop iteration: how many times its encoder was started
    manifestCalls,\* number of GenerateMasterPlaylist calls
    manifest,     \* bytes handed to os.WriteFile for playlist.m3u8, as lines
    tree,         \* what filepath.Walk finds under OutputDir, in walk order
    walkPos,      \* next entry of tree the walk visits
    puts,         \* the PutObject calls issued, in order
    pvErr,        \* what ProcessVideo returned
    runErr,       \* what run returned
    arg,          \* text handed to a parsing function
    out           \* what the parsing function returned

vars == <<numCPUs, platformSep, Config, OutputDir, S3Bucket, pc, loopIdx,
          frameRate, gopSize, sem, wg, errChan, errClosed, worker, probes,
          starts, manifestCalls, manifest, tree, walkPos, puts, pvErr,
          runErr, arg, out>>

jobVars == <<numCPUs, platformSep, Config, OutputDir, S3Bucket, pc, loopIdx,
             frameRate, gopSize, sem, wg, errChan, errClosed, worker, probes,
             starts, manifestCalls, manifest, tree, walkPos, puts, pvErr,
             runErr>>

(***************************************************************************)
(* Bounds of the model.                                                    *)
(***************************************************************************)
MaxCPUs == 2
MaxRenditions == 2
MaxLen == 4

(***************************************************************************)
(* Text helpers: strings, strconv.                                         *)
(***************************************************************************)
Digits == {"0", "1", "2", "3", "4", "5", "6", "7", "8", "9"}

DigitVal(c) ==
    CASE c = "0" -> 0 [] c = "1" -> 1 [] c = "2" -> 2 [] c = "3" -> 3
      [] c = "4" -> 4 [] c = "5" -> 5 [] c = "6" -> 6 [] c = "7" -> 7
      [] c = "8" -> 8 [] c = "9" -> 9

WhiteSpace == {" ", "\n", "\t", "\r"}

RECURSIVE TrimLeft(_)
TrimLeft(s) ==
    IF s /= <<>> /\ Head(s) \in WhiteSpace THEN TrimLeft(Tail(s)) ELSE s

RECURSIVE TrimRight(_)
TrimRight(s) ==
    IF s /= <<>> /\ s[Len(s)] \in WhiteSpace
    THEN TrimRight(SubSeq(s, 1, Len(s) - 1))
    ELSE s

\* strings.TrimSpace
TrimSpace(s) == TrimRight(TrimLeft(s))

\* strings.Split(s, sepTok): one more part than there are separators
RECURSIVE Split(_, _)
Split(s, sepTok) ==
    IF s = <<>> THEN << <<>> >>
    ELSE LET rest == Split(Tail(s), sepTok)
         IN  IF Head(s) = sepTok
             THEN << <<>> >> \o rest
             ELSE << <<Head(s)>> \o Head(rest) >> \o Tail(rest)

RECURSIVE DigitsValue(_)
DigitsValue(s) ==
    IF s = <<>> THEN 0
    ELSE 10 * DigitsValue(SubSeq(s, 1, Len(s) - 1)) + DigitVal(s[Len(s)])

AllDigits(s) == s /= <<>> /\ \A k \in 1..Len(s) : s[k] \in Digits

\* strconv.Atoi: an optional sign and at least one decimal digit; on a syntax
\* error the value is 0 and err is set.  (Texts here are too short to overflow.)
Atoi(s) ==
    LET signed == s /= <<>> /\ Head(s) \in {"+", "-"}
        body   == IF signed THEN Tail(s) ELSE s
    IN  IF AllDigits(body)
        THEN [val |-> IF signed /\ Head(s) = "-"
                      THEN 0 - DigitsValue(body) ELSE DigitsValue(body),
              ok  |-> TRUE]
        ELSE [val |-> 0, ok |-> FALSE]

\* strings.HasSuffix(s, "k") and strings.TrimSuffix(s, "k")
HasSuffix(s, c) == s /= <<>> /\ s[Len(s)] = c
TrimSuffix(s, c) == IF HasSuffix(s, c) THEN SubSeq(s, 1, Len(s) - 1) ELSE s

Abs(n) == IF n < 0 THEN 0 - n ELSE n

\* Go's integer division truncates toward zero
GoDiv(a, b) ==
    IF (a < 0) = (b < 0) THEN Abs(a) \div Abs(b) ELSE 0 - (Abs(a) \div Abs(b))

(***************************************************************************)
(* utils.ParseFrameRate and utils.ParseBitrate.                            *)
(***************************************************************************)
DefaultFrameRate == 30
DefaultBitrate == 1000

ParseFrameRate(text) ==
    LET parts == Split(TrimSpace(text), "/")
    IN  IF Len(parts) = 2
        THEN LET numerator   == Atoi(parts[1]).val
                 denominator == Atoi(parts[2]).val
             IN  GoDiv(numerator, IF denominator = 0 THEN 1 ELSE denominator)
        ELSE DefaultFrameRate

ParseBitrate(bitrate) ==
    IF HasSuffix(bitrate, "k")
    THEN Atoi(TrimSuffix(bitrate, "k")).val
    ELSE DefaultBitrate

(***************************************************************************)
(* strconv.Itoa and fmt.Sprintf("%d...").                                  *)
(***************************************************************************)
DigitChar(d) ==
    CASE d = 0 -> "0" [] d = 1 -> "1" [] d = 2 -> "2" [] d = 3 -> "3"
      [] d = 4 -> "4" [] d = 5 -> "5" [] d = 6 -> "6" [] d = 7 -> "7"
      [] d = 8 -> "8" [] d = 9 -> "9"

RECURSIVE NatDigits(_)
NatDigits(n) ==
    IF n < 10 THEN <<DigitChar(n)>>
    ELSE NatDigits(n \div 10) \o <<DigitChar(n % 10)>>

Itoa(n) == IF n < 0 THEN <<"-">> \o NatDigits(0 - n) ELSE NatDigits(n)

(***************************************************************************)
(* path/filepath on token sequences.  A token is the platform separator,   *)
(* "/" or a fragment of a name; on Windows both "/" and "\" separate.      *)
(***************************************************************************)
IsSep(tok, sep) == tok = sep \/ (sep = "\\" /\ tok = "/")

RECURSIVE Segments(_, _)
Segments(p, sep) ==
    IF p = <<>> THEN << <<>> >>
    ELSE LET rest == Segments(Tail(p), sep)
         IN  IF IsSep(Head(p), sep)
             THEN << <<>> >> \o rest
             ELSE << <<Head(p)>> \o Head(rest) >> \o Tail(rest)

RECURSIVE JoinSegments(_, _)
JoinSegments(segs, sep) ==
    IF segs = <<>> THEN <<>>
    ELSE IF Len(segs) = 1 THEN Head(segs)
    ELSE Head(segs) \o <<sep>> \o JoinSegments(Tail(segs), sep)

RECURSIVE DropDots(_)
DropDots(segs) ==
    IF segs = <<>> THEN <<>>
    ELSE IF Head(segs) \in {<<>>, <<".">>} THEN DropDots(Tail(segs))
    ELSE <<Head(segs)>> \o DropDots(Tail(segs))

\* filepath.Clean of a relative path without ".." elements
Clean(p, sep) ==
    LET kept == DropDots(Segments(p, sep))
    IN  IF kept = <<>> THEN <<".">> ELSE JoinSegments(kept, sep)

\* filepath.Join(a, b): empty elements are ignored, the result is cleaned
Join(a, b, sep) ==
    IF a = <<>> /\ b = <<>> THEN <<>>
    ELSE IF a = <<>> THEN Clean(b, sep)
    ELSE IF b = <<>> THEN Clean(a, sep)
    ELSE Clean(a \o <<sep>> \o b, sep)

RECURSIVE StripTrailingSeps(_, _)
StripTrailingSeps(p, sep) ==
    IF p /= <<>> /\ IsSep(p[Len(p)], sep)
    THEN StripTrailingSeps(SubSeq(p, 1, Len(p) - 1), sep)
    ELSE p

\* filepath.Base
Base(p, sep) ==
    IF p = <<>> THEN <<".">>
    ELSE LET q    == StripTrailingSeps(p, sep)
             segs == Segments(q, sep)
         IN  IF q = <<>> THEN <<sep>> ELSE segs[Len(segs)]

\* filepath.ToSlash
ToSlash(p, sep) ==
    [k \in 1..Len(p) |-> IF p[k] = sep THEN "/" ELSE p[k]]

\* filepath.Rel(base, target) for a target at or below base
Rel(base, target, sep) ==
    LET b == DropDots(Segments(base, sep))
        t == DropDots(Segments(target, sep))
    IN  IF Len(t) <= Len(b) THEN <<".">>
        ELSE JoinSegments(SubSeq(t, Len(b) + 1, Len(t)), sep)

(***************************************************************************)
(* Inputs of a run.                                                        *)
(***************************************************************************)
\* Rows a ladder is drawn from; rows 1 and 2 are NewVideoProcessor's ladder.
RenditionPool ==
    << [output |-> <<"1080">>, resolution |-> "1920x1080",
        bitrate |-> <<"1", "6", "0", "0", "0", "k">>,
        audioRate |-> "128k", level |-> "4.2"],
       [output |-> <<"720">>, resolution |-> "1280x720",
        bitrate |-> <<"6", "0", "0", "0", "k">>,
        audioRate |-> "96k", level |-> "3.1"],
       [output |-> <<"sd", "/", "480">>, resolution |-> "854x480",
        bitrate |-> <<"1", "5", "0", "1", "k">>,
        audioRate |-> "64k", level |-> "3.0"] >>

PoolRow(first, j) == RenditionPool[((first + j - 2) % Len(RenditionPool)) + 1]

SegmentTimes == {4, 6}

\* types.VideoProcessingConfig: parallel lists of one length
MakeConfig(first, n, segmentTime) ==
    [Outputs     |-> [j \in 1..n |-> PoolRow(first, j).output],
     Resolutions |-> [j \in 1..n |-> PoolRow(first, j).resolution],
     Bitrates    |-> [j \in 1..n |-> PoolRow(first, j).bitrate],
     AudioRates  |-> [j \in 1..n |-> PoolRow(first, j).audioRate],
     Levels      |-> [j \in 1..n |-> PoolRow(first, j).level],
     Preset      |-> "slow",
     CRF         |-> 12,
     SegmentTime |-> segmentTime]

Configs ==
    { MakeConfig(first, n, st) :
        first \in 1..Len(RenditionPool), n \in 1..MaxRenditions,
        st \in SegmentTimes }

\* what ffprobe may print for avg_frame_rate
ProbeTexts ==
    { <<"3", "0", "/", "1", "\n">>,
      <<"3", "0", "0", "0", "0", "/", "1", "0", "0", "1", "\n">>,
      <<"0", "/", "0", "\n">> }

\* the -o flag: absent, or a relative directory
OutputDirFlags == { <<>>, <<"out">> }
DefaultOutputDir == <<".", "/", "output">>

\* the -b flag: absent, or a bucket name
BucketFlags == { "", "bucket" }

PlatformSeps == { "/", "\\" }

R == Len(Config.Resolutions)
Renditions == 1..R

(***************************************************************************)
(* Errors: the message layers, outermost first, what %s names, and the     *)
(* encoder invocation whose failure is wrapped (0: none).                  *)
(***************************************************************************)
Nil == [msgs |-> <<>>, text |-> <<>>, cause |-> 0]
NewErr(msg, text, cause) == [msgs |-> <<msg>>, text |-> text, cause |-> cause]
Wrap(msg, e) == [e EXCEPT !.msgs = <<msg>> \o @]

NoArgs ==
    [idx |-> 0, preset |-> "", level |-> "", resolution |-> "", bitrate |-> <<>>,
     maxrate |-> <<>>, bufsize |-> <<>>, audioRate |-> "", g |-> <<>>,
     keyint_min |-> <<>>, hls_time |-> <<>>, segment_filename |-> <<>>,
     playlist |-> <<>>]

IdleWorker == [st |-> "idle", args |-> NoArgs, exit |-> "none"]

(***************************************************************************)
(* The state after flag parsing, before RunE.                              *)
(***************************************************************************)
JobInit ==
    /\ numCPUs \in 1..MaxCPUs
    /\ platformSep \in PlatformSeps
    /\ Config \in Configs
    /\ OutputDir \in OutputDirFlags
    /\ S3Bucket \in BucketFlags
    /\ pc = "stat"
    /\ loopIdx = 0
    /\ frameRate = 0
    /\ gopSize = 0
    /\ sem = 0
    /\ wg = 0
    /\ errChan = <<>>
    /\ errClosed = FALSE
    /\ worker = [j \in 1..Len(Config.Resolutions) |-> IdleWorker]
    /\ probes = 0
    /\ starts = [j \in 1..Len(Config.Resolutions) |-> 0]
    /\ manifestCalls = 0
    /\ manifest = <<>>
    /\ tree = <<>>
    /\ walkPos = 0
    /\ puts = <<>>
    /\ pvErr = Nil
    /\ runErr = Nil

Init ==
    /\ JobInit
    /\ arg = <<>>
    /\ out = [fn |-> "none", val |-> 0]

(***************************************************************************)
(* run: the setup steps before ProcessVideo.                               *)
(***************************************************************************)
\* variant of Fail: a setup error is recorded but the job goes on
Fail_Continues(e) ==
    /\ runErr' = e
    /\ pc' = CASE pc = "stat" -> "prepare"
               [] pc = "prepare" -> "tools"
               [] pc = "tools" -> "probe"
               [] OTHER -> "exit"

\* run returns the error e
Fail(e) ==
    /\ runErr' = e
    /\ pc' = "exit"

\* os.Stat(processor.InputFile)
StatInput ==
    /\ pc = "stat"
    /\ \E exists \in BOOLEAN :
         IF exists
         THEN pc' = "prepare" /\ runErr' = runErr
         ELSE Fail(NewErr("input file does not exist", <<>>, 0))
    /\ UNCHANGED <<numCPUs, platformSep, Config, OutputDir, S3Bucket, loopIdx,
                   frameRate, gopSize, sem, wg, errChan, errClosed, worker,
                   probes, starts, manifestCalls, manifest, tree, walkPos,
                   puts, pvErr, arg, out>>

\* the default of OutputDir, then utils.PrepareOutputDir
PrepareOutputDir ==
    /\ pc = "prepare"
    /\ OutputDir' = IF OutputDir = <<>> THEN DefaultOutputDir ELSE OutputDir
    /\ \E outcome \in {"ok", "clear", "create"} :
         CASE outcome = "ok" -> pc' = "tools" /\ runErr' = runErr
           [] outcome = "clear" ->
                Fail(NewErr("failed to clear output directory", <<>>, 0))
           [] outcome = "create" ->
                Fail(NewErr("failed to create output directory", <<>>, 0))
    /\ UNCHANGED <<numCPUs, platformSep, Config, S3Bucket, loopIdx,
                   frameRate, gopSize, sem, wg, errChan, errClosed, worker,
                   probes, starts, manifestCalls, manifest, tree, walkPos,
                   puts, pvErr, arg, out>>

\* utils.CheckRequiredTools
CheckRequiredTools ==
    /\ pc = "tools"
    /\ \E missing \in {"none", "ffmpeg", "ffprobe"} :
         IF missing = "none"
         THEN pc' = "probe" /\ runErr' = runErr
         ELSE Fail(NewErr("is not installed or in PATH", <<missing>>, 0))
    /\ UNCHANGED <<numCPUs, platformSep, Config, OutputDir, S3Bucket, loopIdx,
                   frameRate, gopSize, sem, wg, errChan, errClosed, worker,
                   probes, starts, manifestCalls, manifest, tree, walkPos,
                   puts, pvErr, arg, out>>

(***************************************************************************)
(* ProcessVideo.                                                           *)
(***************************************************************************)
\* variant of ReturnFromProcessVideo: the error is noted but ProcessVideo
\* carries on with its next step instead of returning
ReturnFromProcessVideo_NoReturn(e) ==
    /\ pvErr' = e
    /\ runErr' = runErr
    /\ pc' = CASE pc = "probe" -> "loop"
             [] pc = "drain" -> "manifest"
             [] OTHER -> "aws"

\* variant of ReturnFromProcessVideo: run does not check the error and goes on
ReturnFromProcessVideo_Unchecked(e) ==
    /\ pvErr' = e
    /\ runErr' = runErr
    /\ pc' = "aws"

\* ProcessVideo returns e to run, which wraps it and returns
ReturnFromProcessVideo(e) ==
    /\ pvErr' = e
    /\ Fail(Wrap("error processing video", e))

\* frameRateCmd.Output(), ParseFrameRate, gopSize
Probe ==
    /\ pc = "probe"
    /\ probes' = probes + 1
    /\ \E ok \in BOOLEAN, text \in ProbeTexts :
         IF ok
         THEN /\ frameRate' = ParseFrameRate(text)
              /\ gopSize' = ParseFrameRate(text) * Config.SegmentTime
              /\ loopIdx' = 1
              /\ pc' = "loop"
              /\ UNCHANGED <<pvErr, runErr>>
         ELSE /\ ReturnFromProcessVideo(NewErr("failed to get frame rate", <<>>, 0))
              /\ UNCHANGED <<frameRate, gopSize, loopIdx>>
    /\ UNCHANGED <<numCPUs, platformSep, Config, OutputDir, S3Bucket, sem, wg,
                   errChan, errClosed, worker, starts, manifestCalls,
                   manifest, tree, walkPos, puts, arg, out>>

\* variant of MaxRate that rounds a fractional product up
MaxRate_RoundUp(bitrateValue) == (bitrateValue * 6 + 4) \div 5

\* int(float64(bitrateValue) * 1.2): the product of an int below 2^53 and the
\* double nearest 1.2 rounds to 6v/5 when that is whole and otherwise keeps its
\* integer part; the conversion to int drops the fraction.
MaxRate(bitrateValue) == GoDiv(bitrateValue * 6, 5)

BufSize(bitrateValue) == bitrateValue * 2

\* variant of Captured for one variable shared by all iterations, which holds
\* the last row once the goroutines read it
Captured_Shared(list, i) == list[Len(list)]

\* audioRate and level are declared in the loop body and read by the closure:
\* every iteration has its own variables, holding row i
Captured(list, i) == list[i]

\* the ffmpeg command line of loop iteration i
EncodeArgs(i) ==
    LET outputName   == Config.Outputs[i]
        bitrate      == Config.Bitrates[i]
        bitrateValue == ParseBitrate(bitrate)
    IN  [idx              |-> i,
         preset           |-> Config.Preset,
         level            |-> Captured(Config.Levels, i),
         resolution       |-> Config.Resolutions[i],
         bitrate          |-> bitrate,
         maxrate          |-> Itoa(MaxRate(bitrateValue)) \o <<"k">>,
         bufsize          |-> Itoa(BufSize(bitrateValue)) \o <<"k">>,
         audioRate        |-> Captured(Config.AudioRates, i),
         g                |-> Itoa(gopSize),
         keyint_min       |-> Itoa(gopSize),
         hls_time         |-> <<"4">>,
         segment_filename |-> Join(OutputDir, outputName \o <<"_%03d.ts">>,
                                   platformSep),
         playlist         |-> Join(OutputDir, outputName \o <<".m3u8">>,
                                   platformSep)]

\* variant of LoopContinues that stops launching once an error was reported
LoopContinues_FailFast(i, config, errs) ==
    i <= Len(config.Resolutions) /\ errs = <<>>

\* range vp.Config.Resolutions has a further element
LoopContinues(i, config, errs) == i <= Len(config.Resolutions)

\* variant of SemHasRoom for a send that never waits for a slot
SemHasRoom_Unbounded(held, capacity) == TRUE

\* sem <- struct{}{} can proceed
SemHasRoom(held, capacity) == held < capacity

\* one iteration of the loop: the arguments, sem <- struct{}{}, wg.Add(1), go
Spawn ==
    /\ pc = "loop"
    /\ LoopContinues(loopIdx, Config, errChan)
    /\ SemHasRoom(sem, numCPUs)
    /\ sem' = sem + 1
    /\ wg' = wg + 1
    /\ worker' = [worker EXCEPT ![loopIdx] =
                    [st |-> "spawned", args |-> EncodeArgs(loopIdx),
                     exit |-> "none"]]
    /\ loopIdx' = loopIdx + 1
    /\ UNCHANGED <<numCPUs, platformSep, Config, OutputDir, S3Bucket, pc,
                   frameRate, gopSize, errChan, errClosed, probes, starts,
                   manifestCalls, manifest, tree, walkPos, puts, pvErr, runErr,
                   arg, out>>

\* goroutine j: ffmpegCmd.Run() starts the encoder
StartEncoder(j) ==
    /\ worker[j].st = "spawned"
    /\ worker' = [worker EXCEPT ![j].st = "encoding"]
    /\ starts' = [starts EXCEPT ![j] = @ + 1]
    /\ UNCHANGED <<numCPUs, platformSep, Config, OutputDir, S3Bucket, pc,
                   loopIdx, frameRate, gopSize, sem, wg, errChan, errClosed,
                   probes, manifestCalls, manifest, tree, walkPos, puts, pvErr,
                   runErr, arg, out>>

\* variant of AfterRun that skips the error send
AfterRun_DropsError(ok) == "deferred"

\* where goroutine j goes when Run returns: the error send, or the deferred func
AfterRun(ok) == IF ok THEN "deferred" ELSE "failed"

\* goroutine j: the encoder exits and Run returns
EncoderExit(j) ==
    /\ worker[j].st = "encoding"
    /\ \E ok \in BOOLEAN :
         worker' = [worker EXCEPT ![j].st = AfterRun(ok),
                                  ![j].exit = IF ok THEN "ok" ELSE "fail"]
    /\ UNCHANGED <<numCPUs, platformSep, Config, OutputDir, S3Bucket, pc,
                   loopIdx, frameRate, gopSize, sem, wg, errChan, errClosed,
                   probes, starts, manifestCalls, manifest, tree, walkPos,
                   puts, pvErr, runErr, arg, out>>

\* goroutine j: errChan <- fmt.Errorf("error processing resolution %s: %w", ...)
SendErr(j) ==
    /\ worker[j].st = "failed"
    /\ ~errClosed
    /\ Len(errChan) < Len(Config.Resolutions)
    /\ errChan' = Append(errChan,
                         NewErr("error processing resolution",
                                <<worker[j].args.resolution>>, j))
    /\ worker' = [worker EXCEPT ![j].st = "deferred"]
    /\ UNCHANGED <<numCPUs, platformSep, Config, OutputDir, S3Bucket, pc,
                   loopIdx, frameRate, gopSize, sem, wg, errClosed, probes,
                   starts, manifestCalls, manifest, tree, walkPos, puts,
                   pvErr, runErr, arg, out>>

\* variant of ReleaseSem for a deferred func that does not receive from sem
ReleaseSem_Skipped(j) ==
    /\ worker[j].st = "deferred"
    /\ worker' = [worker EXCEPT ![j].st = "released"]
    /\ UNCHANGED <<numCPUs, platformSep, Config, OutputDir, S3Bucket, pc,
                   loopIdx, frameRate, gopSize, sem, wg, errChan, errClosed,
                   probes, starts, manifestCalls, manifest, tree, walkPos,
                   puts, pvErr, runErr, arg, out>>

\* goroutine j, deferred: <-sem
ReleaseSem(j) ==
    /\ worker[j].st = "deferred"
    /\ sem > 0
    /\ sem' = sem - 1
    /\ worker' = [worker EXCEPT ![j].st = "released"]
    /\ UNCHANGED <<numCPUs, platformSep, Config, OutputDir, S3Bucket, pc,
                   loopIdx, frameRate, gopSize, wg, errChan, errClosed, probes,
                   starts, manifestCalls, manifest, tree, walkPos, puts,
                   pvErr, runErr, arg, out>>

\* goroutine j, deferred: wg.Done()
WgDone(j) ==
    /\ worker[j].st = "released"
    /\ wg' = wg - 1
    /\ worker' = [worker EXCEPT ![j].st = "done"]
    /\ UNCHANGED <<numCPUs, platformSep, Config, OutputDir, S3Bucket, pc,
                   loopIdx, frameRate, gopSize, sem, errChan, errClosed, probes,
                   starts, manifestCalls, manifest, tree, walkPos, puts,
                   pvErr, runErr, arg, out>>

\* variant of WaitReturns for a join that does not wait
WaitReturns_Immediately(counter) == TRUE

\* wg.Wait() returns once the counter is zero
WaitReturns(counter) == counter = 0

\* the loop is over: wg.Wait() returns, close(errChan)
WaitAndClose ==
    /\ pc = "loop"
    /\ ~LoopContinues(loopIdx, Config, errChan)
    /\ WaitReturns(wg)
    /\ errClosed' = TRUE
    /\ pc' = "drain"
    /\ UNCHANGED <<numCPUs, platformSep, Config, OutputDir, S3Bucket, loopIdx,
                   frameRate, gopSize, sem, wg, errChan, worker, probes,
                   starts, manifestCalls, manifest, tree, walkPos, puts,
                   pvErr, runErr, arg, out>>

\* variant of DrainReturnsError that ignores what the channel holds
DrainReturnsError_Never(ch) == FALSE

\* for err := range errChan: the first value received is returned
DrainReturnsError(ch) == ch /= <<>>

Drain ==
    /\ pc = "drain"
    /\ IF DrainReturnsError(errChan)
       THEN /\ errChan' = Tail(errChan)
            /\ ReturnFromProcessVideo(
                 Wrap("error during video processing", Head(errChan)))
       ELSE /\ pc' = "manifest"
            /\ UNCHANGED <<errChan, pvErr, runErr>>
    /\ UNCHANGED <<numCPUs, platformSep, Config, OutputDir, S3Bucket, loopIdx,
                   frameRate, gopSize, sem, wg, errClosed, worker, probes,
                   starts, manifestCalls, manifest, tree, walkPos, puts,
                   arg, out>>

(***************************************************************************)
(* GenerateMasterPlaylist.                                                 *)
(***************************************************************************)
AudioAllowance == 128

Bandwidth(bitrate) == (ParseBitrate(bitrate) + AudioAllowance) * 1000

\* variant of PlaylistRef that keeps the directory part
PlaylistRef_Unbased(playlist, sep) == playlist \o <<".m3u8">>

\* the name written under the STREAM-INF line of an entry
PlaylistRef(playlist, sep) == Base(playlist, sep) \o <<".m3u8">>

StreamInf(bitrate, resolution) ==
    <<"#EXT-X-STREAM-INF:BANDWIDTH=">> \o Itoa(Bandwidth(bitrate))
        \o <<",RESOLUTION=", resolution>>

RECURSIVE ManifestEntries(_, _, _)
ManifestEntries(config, i, sep) ==
    IF i > Len(config.Outputs) THEN <<>>
    ELSE << StreamInf(config.Bitrates[i], config.Resolutions[i]),
            PlaylistRef(config.Outputs[i], sep) >>
         \o ManifestEntries(config, i + 1, sep)

\* the buffer of GenerateMasterPlaylist, one element per line
MasterPlaylistLines(config, sep) ==
    << <<"#EXTM3U">>, <<"#EXT-X-VERSION:3">> >> \o ManifestEntries(config, 1, sep)

\* the tail of ProcessVideo: GenerateMasterPlaylist and os.WriteFile
GenerateMasterPlaylist ==
    /\ pc = "manifest"
    /\ manifestCalls' = manifestCalls + 1
    /\ manifest' = MasterPlaylistLines(Config, platformSep)
    /\ \E written \in BOOLEAN :
         IF written
         THEN /\ pc' = "aws"
              /\ UNCHANGED <<pvErr, runErr>>
         ELSE ReturnFromProcessVideo(
                NewErr("failed to generate master playlist", <<>>, 0))
    /\ UNCHANGED <<numCPUs, platformSep, Config, OutputDir, S3Bucket, loopIdx,
                   frameRate, gopSize, sem, wg, errChan, errClosed, worker,
                   probes, starts, tree, walkPos, puts, arg, out>>

(***************************************************************************)
(* run after ProcessVideo: InitAWSClient and UploadToS3.                   *)
(***************************************************************************)
File(segs) == [rel |-> segs, isDir |-> FALSE]
Dir(segs) == [rel |-> segs, isDir |-> TRUE]

\* Directory contents as filepath.Walk visits them: the root first, then the
\* names of each directory in lexical order.
Trees ==
    { << Dir(<<>>) >>,
      << Dir(<<>>), Dir(<< <<"a">> >>), File(<< <<"a">>, <<"b.ts">> >>),
         File(<< <<"playlist.m3u8">> >>) >>,
      << Dir(<<>>), File(<< <<"1080.m3u8">> >>), File(<< <<"1080_000.ts">> >>),
         File(<< <<"playlist.m3u8">> >>) >> }

\* the path filepath.Walk hands to the callback for an entry
WalkPath(entry, root, sep) ==
    IF entry.rel = <<>> THEN root
    ELSE Join(root, JoinSegments(entry.rel, sep), sep)

\* the Key of the PutObjectInput for the file at path
ObjectKey(path, sep) == ToSlash(path, sep)

InitAWSClient ==
    /\ pc = "aws"
    /\ \E ok \in BOOLEAN :
         IF ~ok
         THEN /\ Fail(NewErr("failed to initialize AWS client", <<>>, 0))
              /\ UNCHANGED <<tree, walkPos>>
         ELSE IF S3Bucket /= ""
         THEN /\ \E t \in Trees : tree' = t
              /\ walkPos' = 1
              /\ pc' = "upload"
              /\ runErr' = runErr
         ELSE /\ pc' = "exit"
              /\ runErr' = Nil
              /\ UNCHANGED <<tree, walkPos>>
    /\ UNCHANGED <<numCPUs, platformSep, Config, OutputDir, S3Bucket, loopIdx,
                   frameRate, gopSize, sem, wg, errChan, errClosed, worker,
                   probes, starts, manifestCalls, manifest, puts, pvErr,
                   arg, out>>

UploadFail(e) == Fail(Wrap("error uploading to S3", e))

\* variant of SkipsEntry that hands directories to the upload as well
SkipsEntry_Never(entry) == FALSE

\* if info.IsDir() { return nil }
SkipsEntry(entry) == entry.isDir

\* variant of UploadErrPath that reports the walk path
UploadErrPath_WalkPath(relPath, path) == path

\* the path named by "failed to upload file %s"
UploadErrPath(relPath, path) == relPath

\* one call of the callback UploadToS3 gives to filepath.Walk
WalkStep ==
    /\ pc = "upload"
    /\ walkPos <= Len(tree)
    /\ LET entry   == tree[walkPos]
           path    == WalkPath(entry, OutputDir, platformSep)
           relPath == Rel(OutputDir, path, platformSep)
           newPath == ObjectKey(path, platformSep)
       IN  \E outcome \in {"walkerr", "openerr", "puterr", "ok"} :
             CASE outcome = "walkerr" ->
                    /\ UploadFail(NewErr("error walking through files", <<>>, 0))
                    /\ UNCHANGED <<walkPos, puts>>
               [] outcome /= "walkerr" /\ SkipsEntry(entry) ->
                    /\ outcome = "ok"
                    /\ walkPos' = walkPos + 1
                    /\ UNCHANGED <<pc, runErr, puts>>
               [] outcome = "openerr" /\ ~SkipsEntry(entry) ->
                    /\ UploadFail(NewErr("failed to open file", path, 0))
                    /\ UNCHANGED <<walkPos, puts>>
               [] outcome = "puterr" /\ ~SkipsEntry(entry) ->
                    /\ puts' = Append(puts, [bucket |-> S3Bucket, key |-> newPath,
                                             body |-> path, ok |-> FALSE])
                    /\ UploadFail(NewErr("failed to upload file",
                                         UploadErrPath(relPath, path), 0))
                    /\ UNCHANGED walkPos
               [] outcome = "ok" /\ ~SkipsEntry(entry) ->
                    /\ puts' = Append(puts, [bucket |-> S3Bucket, key |-> newPath,
                                             body |-> path, ok |-> TRUE])
                    /\ walkPos' = walkPos + 1
                    /\ UNCHANGED <<pc, runErr>>
    /\ UNCHANGED <<numCPUs, platformSep, Config, OutputDir, S3Bucket, loopIdx,
                   frameRate, gopSize, sem, wg, errChan, errClosed, worker,
                   probes, starts, manifestCalls, manifest, tree, pvErr,
                   arg, out>>

\* filepath.Walk has visited everything: UploadToS3 and run return nil
WalkEnd ==
    /\ pc = "upload"
    /\ walkPos > Len(tree)
    /\ pc' = "exit"
    /\ runErr' = Nil
    /\ UNCHANGED <<numCPUs, platformSep, Config, OutputDir, S3Bucket, loopIdx,
                   frameRate, gopSize, sem, wg, errChan, errClosed, worker,
                   probes, starts, manifestCalls, manifest, tree, walkPos,
                   puts, pvErr, arg, out>>

Next ==
    \/ StatInput
    \/ PrepareOutputDir
    \/ CheckRequiredTools
    \/ Probe
    \/ Spawn
    \/ \E j \in Renditions : StartEncoder(j)
    \/ \E j \in Renditions : EncoderExit(j)
    \/ \E j \in Renditions : SendErr(j)
    \/ \E j \in Renditions : ReleaseSem(j)
    \/ \E j \in Renditions : WgDone(j)
    \/ WaitAndClose
    \/ Drain
    \/ GenerateMasterPlaylist
    \/ InitAWSClient
    \/ WalkStep
    \/ WalkEnd

Spec == Init /\ [][Next]_vars

(***************************************************************************)
(* Fairness.  The Go scheduler runs every goroutine that can run, calls     *)
(* into the operating system return, and every encoder process exits: the   *)
(* orchestrator is not held forever before a statement it can execute, and  *)
(* neither is a worker.  The orchestrator's steps are told apart by its     *)
(* position alone, so the fairness condition on it is stated on ctl.        *)
(***************************************************************************)
\* the orchestrator's position: its statement and its loop index
ctl == <<pc, loopIdx>>

\* iteration loopIdx of the loop, as a step of the position: the send on sem
\* proceeds and the loop moves on
LoopStep ==
    /\ pc = "loop"
    /\ LoopContinues(loopIdx, Config, errChan)
    /\ SemHasRoom(sem, numCPUs)
    /\ pc' = pc
    /\ loopIdx' = loopIdx + 1

\* GenerateMasterPlaylist and os.WriteFile return, as a step of the position
ManifestStep ==
    /\ pc = "manifest"
    /\ pc' \in {"aws", "exit"}
    /\ loopIdx' = loopIdx

\* the statements of ProcessVideo that the orchestrator executes
MainStep ==
    \/ Probe
    \/ LoopStep
    \/ WaitAndClose
    \/ Drain
    \/ ManifestStep

\* the statements of goroutine j
WorkerStep(j) ==
    /\ j \in Renditions
    /\ \/ StartEncoder(j)
       \/ EncoderExit(j)
       \/ SendErr(j)
       \/ ReleaseSem(j)
       \/ WgDone(j)

\* Whether ProcessVideo returns does not depend on how paths are written:
\* the runs start on one platform and without the -o flag.
InitFair ==
    /\ Init
    /\ platformSep = "/"
    /\ OutputDir = <<>>

SpecFair ==
    /\ InitFair /\ [][Next]_vars
    /\ WF_ctl(MainStep)
    /\ \A j \in 1..MaxRenditions : WF_vars(WorkerStep(j))

(***************************************************************************)
(* The parsing functions on their own, applied to every short text.        *)
(***************************************************************************)
Alphabet == {"0", "2", "7", "/", "k", "-", " ", "x"}

RECURSIVE Texts(_)
Texts(n) ==
    IF n = 0 THEN { <<>> }
    ELSE LET shorter == Texts(n - 1)
         IN  shorter \cup { Append(t, c) : t \in shorter, c \in Alphabet }

NotApplied == [fn |-> "none", val |-> 0]

InitParse ==
    /\ numCPUs = 1
    /\ platformSep = "/"
    /\ Config = MakeConfig(1, 2, 4)
    /\ OutputDir = <<>>
    /\ S3Bucket = ""
    /\ pc = "parse"
    /\ loopIdx = 0
    /\ frameRate = 0
    /\ gopSize = 0
    /\ sem = 0
    /\ wg = 0
    /\ errChan = <<>>
    /\ errClosed = FALSE
    /\ worker = [j \in 1..2 |-> IdleWorker]
    /\ probes = 0
    /\ starts = [j \in 1..2 |-> 0]
    /\ manifestCalls = 0
    /\ manifest = <<>>
    /\ tree = <<>>
    /\ walkPos = 0
    /\ puts = <<>>
    /\ pvErr = Nil
    /\ runErr = Nil
    /\ arg \in Texts(MaxLen)
    /\ out = NotApplied

ApplyParseFrameRate ==
    /\ pc = "parse"
    /\ out = NotApplied
    /\ out' = [fn |-> "ParseFrameRate", val |-> ParseFrameRate(arg)]
    /\ UNCHANGED <<jobVars, arg>>

ApplyParseBitrate ==
    /\ pc = "parse"
    /\ out = NotApplied
    /\ out' = [fn |-> "ParseBitrate", val |-> ParseBitrate(arg)]
    /\ UNCHANGED <<jobVars, arg>>

NextParse == ApplyParseFrameRate \/ ApplyParseBitrate

SpecParse == InitParse /\ [][NextParse]_vars

(***************************************************************************)
(* Properties.                                                             *)
(***************************************************************************)
Running == { j \in Renditions : worker[j].st = "encoding" }
Failed == { j \in Renditions : worker[j].exit = "fail" }
Succeeded == { j \in Renditions : worker[j].exit = "ok" }

\* the probe succeeded and the join barrier has been passed
PastJoin ==
    \/ pc \in {"drain", "manifest", "aws", "upload"}
    \/ pc = "exit" /\ loopIdx >= 1

\* ProcessVideo has returned
ProcessVideoReturned ==
    \/ pc \in {"aws", "upload"}
    \/ pc = "exit" /\ probes >= 1

\* the video bitrate of ladder row j in kbps, read off the configured text
LadderKbps(j) == DigitsValue(TrimSuffix(Config.Bitrates[j], "k"))

Min(S) == CHOOSE x \in S : \A y \in S : x <= y

\* C1: at most numCPUs encoder invocations are running (started and not yet
\* finished) in every reachable state, also when there are more renditions
\* than slots.
C1_ConcurrencyBound == Cardinality(Running) <= numCPUs

C1_Witness ==
    /\ R > numCPUs
    /\ Cardinality(Running) = numCPUs
    /\ pc = "loop"
    /\ loopIdx <= R

\* C2: no rendition's encoder is started twice, and once the probe succeeded
\* ProcessVideo does not get past the join before every rendition's encoder
\* has been started exactly once and has exited, whatever the other
\* renditions' outcomes.
C2_EveryRenditionEncodedOnce ==
    /\ \A j \in Renditions : starts[j] <= 1
    /\ PastJoin =>
         \A j \in Renditions :
            starts[j] = 1 /\ worker[j].st = "done" /\ worker[j].exit /= "none"

C2_Witness ==
    /\ pc = "exit"
    /\ \E j, k \in Renditions : j < k /\ j \in Failed /\ k \in Succeeded

\* C3: when ProcessVideo returns the error of a failed rendition, it is the
\* error of the failed rendition with the lowest ladder index.
C3_FirstLadderErrorReturned ==
    (pc = "exit" /\ pvErr.cause /= 0) => pvErr.cause = Min(Failed)

\* C4: GenerateMasterPlaylist is called only after every rendition task has
\* finished and only if none failed; once ProcessVideo has returned with a
\* failed task, run reports an error and the manifest was never generated.
C4_ManifestOnlyAfterFullSuccess ==
    /\ manifestCalls >= 1 =>
         \A j \in Renditions : worker[j].st = "done" /\ worker[j].exit = "ok"
    /\ (ProcessVideoReturned /\ Failed /= {}) =>
         /\ manifestCalls = 0
         /\ manifest = <<>>
         /\ pvErr /= Nil
         /\ runErr /= Nil

C4_Witness ==
    /\ pc = "exit"
    /\ Failed /= {}
    /\ Succeeded /= {}
    /\ manifestCalls = 0

ClaimedFrameRate(text) ==
    LET parts == Split(TrimSpace(text), "/")
    IN  IF Len(parts) = 2 /\ Atoi(parts[1]).ok /\ Atoi(parts[2]).ok
        THEN IF Atoi(parts[2]).val /= 0
             THEN GoDiv(Atoi(parts[1]).val, Atoi(parts[2]).val)
             ELSE Atoi(parts[1]).val
        ELSE 30

\* C6: ParseFrameRate returns N div D for "N/D" with integers N and D /= 0,
\* N for D = 0, and 30 for every other text.
C6_ParseFrameRateContract ==
    out.fn = "ParseFrameRate" => out.val = ClaimedFrameRate(arg)

\* what C7 says ParseBitrate returns
ClaimedBitrate(text) ==
    IF HasSuffix(text, "k") /\ AllDigits(TrimSuffix(text, "k"))
    THEN DigitsValue(TrimSuffix(text, "k"))
    ELSE 1000

\* C7: ParseBitrate returns the value of the digits for "<digits>k" and 1000
\* for every other text.
C7_ParseBitrateContract ==
    out.fn = "ParseBitrate" => out.val = ClaimedBitrate(arg)

\* C8 as stated: every started encoder gets maxrate = ceil(v * 1.2),
\* bufsize = v * 2 and GOP size = frameRate * segment duration.
C8_MaxrateIsCeiling ==
    \A j \in Renditions :
       starts[j] >= 1 =>
         /\ worker[j].args.maxrate
              = Itoa((LadderKbps(j) * 12 + 9) \div 10) \o <<"k">>
         /\ worker[j].args.bufsize = Itoa(LadderKbps(j) + LadderKbps(j)) \o <<"k">>
         /\ worker[j].args.g = Itoa(frameRate * Config.SegmentTime)

\* C8 amended: every started encoder gets maxrate = floor(v * 1.2) (the
\* fraction is dropped), bufsize = v * 2 and GOP size = frameRate * segment
\* duration.
C8_EncodeParameters ==
    \A j \in Renditions :
       starts[j] >= 1 =>
         /\ worker[j].args.maxrate
              = Itoa((LadderKbps(j) * 12) \div 10) \o <<"k">>
         /\ worker[j].args.bufsize = Itoa(LadderKbps(j) + LadderKbps(j)) \o <<"k">>
         /\ worker[j].args.g = Itoa(frameRate * Config.SegmentTime)

C8_Witness ==
    \E j \in Renditions :
       /\ starts[j] >= 1
       /\ (LadderKbps(j) * 12) % 10 /= 0
       /\ frameRate > 0

\* C9: the master manifest is the two-line preamble followed, for each
\* rendition in ladder order, by a STREAM-INF line with BANDWIDTH =
\* (kbps + 128) * 1000 and the rendition's resolution, and then the file name
\* (last path element) of the playlist that rendition's encoder was told to
\* write.
C9_ManifestContent ==
    manifestCalls >= 1 =>
      /\ Len(manifest) = 2 + 2 * R
      /\ manifest[1] = <<"#EXTM3U">>
      /\ manifest[2] = <<"#EXT-X-VERSION:3">>
      /\ \A j \in Renditions :
           /\ manifest[2 * j + 1]
                = <<"#EXT-X-STREAM-INF:BANDWIDTH=">>
                    \o Itoa((LadderKbps(j) + 128) * 1000)
                    \o <<",RESOLUTION=", Config.Resolutions[j]>>
           /\ manifest[2 * j + 2] = Base(worker[j].args.playlist, platformSep)
           /\ ~ \E k \in 1..Len(manifest[2 * j + 2]) :
                  IsSep(manifest[2 * j + 2][k], platformSep)

C9_Witness ==
    /\ manifestCalls = 1
    /\ R = 2
    /\ Config.Outputs[1] = <<"sd", "/", "480">>
    /\ manifest[4] = <<"480", ".m3u8">>

\* C10: the key of every PutObject call is the uploaded file's path relative
\* to the output directory, with forward slashes.
C10_KeyIsRelativePath ==
    \A k \in 1..Len(puts) :
       \E n \in 1..Len(tree) :
          /\ ~tree[n].isDir
          /\ WalkPath(tree[n], OutputDir, platformSep) = puts[k].body
          /\ puts[k].key = JoinSegments(tree[n].rel, "/")

\* the walk paths of the regular files among the first n entries of the tree
RECURSIVE FilePathsUpTo(_)
FilePathsUpTo(n) ==
    IF n = 0 THEN <<>>
    ELSE IF tree[n].isDir THEN FilePathsUpTo(n - 1)
    ELSE Append(FilePathsUpTo(n - 1), WalkPath(tree[n], OutputDir, platformSep))

PutBodies == [k \in 1..Len(puts) |-> puts[k].body]

\* C11: a failed put is the last put issued: the walk has stopped at that
\* file, run has returned an upload error naming that file's path relative
\* to the output directory, and the puts issued are exactly the regular files
\* up to it in scan order, all but the last successful and none withdrawn.
C11_FirstPutFailureStopsWalk ==
    \A k \in 1..Len(puts) :
       ~puts[k].ok =>
         /\ k = Len(puts)
         /\ pc = "exit"
         /\ ~tree[walkPos].isDir
         /\ puts[k].body = WalkPath(tree[walkPos], OutputDir, platformSep)
         /\ runErr.msgs = <<"error uploading to S3", "failed to upload file">>
         /\ runErr.text = JoinSegments(tree[walkPos].rel, platformSep)
         /\ PutBodies = FilePathsUpTo(walkPos)
         /\ \A i \in 1..(k - 1) : puts[i].ok

C11_Witness ==
    /\ Len(puts) = 2
    /\ puts[1].ok
    /\ ~puts[2].ok
    /\ walkPos < Len(tree)
    /\ pc = "exit"

\* the prober process failed to execute
ProbeFailed == pvErr.msgs = <<"failed to get frame rate">>

\* C12: ffprobe runs at most once, and exactly once before any encoder is
\* launched or started; when it fails to execute, run has returned an error,
\* no encoder was launched or started and no manifest was generated.
C12_ProbeOnceBeforeEncoding ==
    /\ probes <= 1
    /\ pc \in {"loop", "drain", "manifest", "aws", "upload"} => probes = 1
    /\ \A j \in Renditions :
         (worker[j].st /= "idle" \/ starts[j] >= 1) =>
            probes = 1 /\ ~ProbeFailed
    /\ ProbeFailed =>
         /\ pc = "exit"
         /\ runErr /= Nil
         /\ \A j \in Renditions : worker[j].st = "idle" /\ starts[j] = 0
         /\ manifestCalls = 0
         /\ manifest = <<>>

C12_Witness ==
    /\ ProbeFailed
    /\ probes = 1
    /\ pc = "exit"

\* the upload pass visited the whole tree and returned nil
UploadCompleted ==
    /\ pc = "exit"
    /\ runErr = Nil
    /\ tree /= <<>>
    /\ walkPos > Len(tree)

\* C13: no put is ever issued for a directory, and when the upload pass
\* completes without a failure exactly one successful put has been issued for
\* each regular file under the output directory.
C13_EachRegularFilePutOnce ==
    /\ \A k \in 1..Len(puts) :
         /\ \E n \in 1..Len(tree) :
              ~tree[n].isDir
                /\ puts[k].body = WalkPath(tree[n], OutputDir, platformSep)
         /\ ~ \E n \in 1..Len(tree) :
              tree[n].isDir
                /\ puts[k].body = WalkPath(tree[n], OutputDir, platformSep)
    /\ UploadCompleted =>
         \A n \in 1..Len(tree) :
            Cardinality({ k \in 1..Len(puts) :
                            /\ puts[k].body
                                 = WalkPath(tree[n], OutputDir, platformSep)
                            /\ puts[k].ok })
              = IF tree[n].isDir THEN 0 ELSE 1

C13_Witness ==
    /\ UploadCompleted
    /\ Len(puts) = 2
    /\ \E n \in 2..Len(tree) : tree[n].isDir

\* os.WriteFile of the manifest failed
ManifestWriteFailed == pvErr.msgs = <<"failed to generate master playlist">>

\* C14: encoders are launched only after a successful probe, the manifest is
\* generated only after every encoder finished successfully, and the upload
\* walk starts (and any put is issued) only after the manifest was generated
\* and ProcessVideo returned nil; nothing is published when an encode failed
\* or when writing the manifest failed.
C14_StagesInOrder ==
    /\ \A j \in Renditions :
         worker[j].st /= "idle" => probes = 1 /\ ~ProbeFailed
    /\ manifestCalls >= 1 =>
         \A j \in Renditions : worker[j].st = "done" /\ worker[j].exit = "ok"
    /\ (pc = "upload" \/ tree /= <<>> \/ puts /= <<>>) =>
         /\ manifestCalls = 1
         /\ manifest /= <<>>
         /\ pvErr = Nil
         /\ Failed = {}
    /\ Failed /= {} => puts = <<>> /\ tree = <<>>
    /\ ManifestWriteFailed =>
         /\ pc = "exit"
         /\ runErr /= Nil
         /\ puts = <<>>
         /\ tree = <<>>

C14_Witness ==
    /\ ManifestWriteFailed
    /\ S3Bucket /= ""
    /\ pc = "exit"

SetupErrors ==
    {"input file does not exist", "failed to clear output directory",
     "failed to create output directory", "is not installed or in PATH"}

\* run returned the error of a setup step
SetupFailed == Len(runErr.msgs) = 1 /\ runErr.msgs[1] \in SetupErrors

\* C15: when a setup step fails (input missing, output directory not
\* prepared, a tool missing) the job has failed and ended, and neither the
\* prober nor any encoder was started (nor anything after them).
C15_SetupFailureStartsNothing ==
    SetupFailed =>
        /\ pc = "exit"
        /\ probes = 0
        /\ \A j \in Renditions : starts[j] = 0 /\ worker[j] = IdleWorker
        /\ sem = 0 /\ wg = 0 /\ errChan = <<>>
        /\ manifestCalls = 0
        /\ puts = <<>>

C15_Witness ==
    /\ SetupFailed
    /\ runErr.msgs[1] = "is not installed or in PATH"
    /\ pc = "exit"

\* C16: for every rendition handed to an encoder, -g and -keyint_min both
\* equal frameRate * segmentSeconds, where segmentSeconds is the segment
\* length the same command line passes as -hls_time, whatever segment duration
\* is configured.
C16_GopMatchesSegmentLength ==
    \A j \in Renditions :
       worker[j].st /= "idle" =>
          LET segmentSeconds == Atoi(worker[j].args.hls_time).val
          IN  /\ worker[j].args.g = Itoa(frameRate * segmentSeconds)
              /\ worker[j].args.keyint_min = Itoa(frameRate * segmentSeconds)

\* C17: the frame rate a job uses is strictly positive for every prober output,
\* so the GOP size handed to every encoder invocation is strictly positive.
C17_FrameRatePositive ==
    \A j \in Renditions :
       worker[j].st /= "idle" =>
          /\ frameRate > 0
          /\ gopSize > 0
          /\ Atoi(worker[j].args.g).val > 0

\* the errors of worker j that are in the channel or were received from it
ErrorsOf(j) ==
    Cardinality({ k \in 1..Len(errChan) : errChan[k].cause = j })
        + (IF pvErr.cause = j THEN 1 ELSE 0)

\* worker j is past its send statement
HasSent(j) ==
    worker[j].exit = "fail" /\ worker[j].st \in {"deferred", "released", "done"}

\* C18: each worker sends at most one error, the buffered errors never exceed
\* the channel's capacity (the number of renditions) so a worker about to send
\* can always send, and the channel is closed and read by the orchestrator
\* only after every worker has finished.
C18_ErrorChannelDiscipline ==
    /\ Len(errChan) <= R
    /\ \A j \in Renditions : ErrorsOf(j) = IF HasSent(j) THEN 1 ELSE 0
    /\ \A j \in Renditions :
         worker[j].st = "failed" => ~errClosed /\ Len(errChan) < R
    /\ errClosed => \A j \in Renditions : worker[j].st = "done"
    /\ pc \in {"drain", "manifest"} => errClosed
    /\ pvErr.cause \in Renditions => errClosed

C18_Witness ==
    /\ R = 2
    /\ Len(errChan) = 1
    /\ \E j \in Renditions : worker[j].st = "failed"

\* C19: the encoder invocation of rendition j carries the name, resolution,
\* video bitrate, audio bitrate and level of ladder index j, and manifest
\* entry j carries the name, resolution and bitrate of index j, in every
\* interleaving of the workers.
C19_FieldsOfOneIndex ==
    /\ \A j \in Renditions :
         worker[j].st /= "idle" =>
            LET a == worker[j].args
            IN  /\ a.idx = j
                /\ a.resolution = Config.Resolutions[j]
                /\ a.bitrate = Config.Bitrates[j]
                /\ a.audioRate = Config.AudioRates[j]
                /\ a.level = Config.Levels[j]
                /\ a.maxrate = Itoa((LadderKbps(j) * 6) \div 5) \o <<"k">>
                /\ a.bufsize = Itoa(LadderKbps(j) * 2) \o <<"k">>
                /\ a.playlist = Join(OutputDir, Config.Outputs[j] \o <<".m3u8">>,
                                     platformSep)
                /\ a.segment_filename
                     = Join(OutputDir, Config.Outputs[j] \o <<"_%03d.ts">>,
                            platformSep)
    /\ manifestCalls >= 1 =>
         \A j \in Renditions :
            LET line == manifest[2 * j + 1]
            IN  /\ line[Len(line)] = Config.Resolutions[j]
                /\ SubSeq(line, 2, Len(line) - 2)
                     = Itoa((LadderKbps(j) + 128) * 1000)
                /\ manifest[2 * j + 2]
                     = Base(Config.Outputs[j], platformSep) \o <<".m3u8">>

C19_Witness ==
    /\ R = 2
    /\ manifestCalls = 1
    /\ Config.Levels[1] /= Config.Levels[2]
    /\ Config.AudioRates[1] /= Config.AudioRates[2]
    /\ \A j \in Renditions : starts[j] = 1

\* C20: when every encoder invocation exits, ProcessVideo returns, for every
\* pool size and number of renditions (R > N included): once ProcessVideo has
\* been entered it eventually returns, and when the join barrier has opened
\* every slot is released and every worker has finished.
C20_ProcessVideoReturns ==
    /\ (pc = "probe") ~> ProcessVideoReturned
    /\ [](PastJoin =>
            /\ sem = 0
            /\ wg = 0
            /\ \A j \in Renditions : worker[j].st = "done")

C20_Witness ==
    /\ ProcessVideoReturned
    /\ PastJoin
    /\ R > numCPUs
    /\ \A j \in Renditions : worker[j].st = "done"
    /\ Failed /= {}

\* setup, the probe, every encoder and the manifest write succeeded
StagesSucceeded ==
    /\ ProcessVideoReturned
    /\ pvErr = Nil
    /\ manifestCalls = 1
    /\ \A j \in Renditions : worker[j].st = "done" /\ worker[j].exit = "ok"

\* C21: with no bucket configured no put is ever issued, and a job whose
\* setup, probe, encoders and manifest write all succeeded ends in success,
\* whatever the initialisation of the storage client did.
C21_NoBucketOutcome ==
    S3Bucket = "" =>
        /\ puts = <<>>
        /\ tree = <<>>
        /\ (pc = "exit" /\ StagesSucceeded) => runErr = Nil

====
